---- MODULE Spec2Model ----
(***************************************************************************)
(* seq-hash: streaming k-mer hashing (NtHasher, MulHasher, AntiLexHasher). *)
(*                                                                         *)
(* A u32 is the pair <<hi, lo>> of its 16-bit halves, so that every        *)
(* rotation, shift, xor, wrapping add and wrapping multiplication keeps    *)
(* its 32-bit width.  A symbol is a small natural number (a u8).           *)
(***************************************************************************)
EXTENDS Integers, Sequences, FiniteSets, TLC

\* ------------------------------------------------------------------ bounds

\* The hashers are built for k in 1..MaxK (and the special k below).
MaxK == 6
\* Every sequence of at most MaxLen symbols is an input.
MaxLen == 3

\* ------------------------------------------------------- program constants

\* 2^16: one half of a u32.
Half == 2^16
\* Width of a u32, in bits.
WordBits == 32
\* Rotation per symbol: the default of the const generic R.
R == 7
\* AntiLexHasher::new: let b = 2.
AntiLexBits == 2
\* Number of lanes of wide::u32x8.
L == 8

\* ------------------------------------------------------------ u32 arithmetic

RECURSIVE Xor16(_, _)
Xor16(a, b) ==
  IF a = 0 THEN b
  ELSE IF b = 0 THEN a
  ELSE ((a + b) % 2) + 2 * Xor16(a \div 2, b \div 2)

RECURSIVE And16(_, _)
And16(a, b) ==
  IF a = 0 \/ b = 0 THEN 0
  ELSE ((a % 2) * (b % 2)) + 2 * And16(a \div 2, b \div 2)

\* u32 ^ u32
Xor(x, y) == <<Xor16(x[1], y[1]), Xor16(x[2], y[2])>>
\* u32 & u32
And(x, y) == <<And16(x[1], y[1]), And16(x[2], y[2])>>
\* u32 | u32  (a | b = (a ^ b) ^ (a & b))
Or(x, y) == Xor(Xor(x, y), And(x, y))

\* u32 << n for 0 <= n < 32
Shl(x, n) ==
  IF n >= 16
  THEN <<(x[2] * 2^(n - 16)) % Half, 0>>
  ELSE <<((x[1] * 2^n) % Half) + (x[2] \div 2^(16 - n)), (x[2] * 2^n) % Half>>

\* u32 >> n for 0 <= n < 32
Shr(x, n) ==
  IF n >= 16
  THEN <<0, x[1] \div 2^(n - 16)>>
  ELSE <<x[1] \div 2^n, (x[2] \div 2^n) + ((x[1] % 2^n) * 2^(16 - n))>>

\* u32::rotate_left(n): n is taken modulo 32
rotate_left(x, n) ==
  LET m == n % WordBits
  IN  IF m = 0 THEN x ELSE Xor(Shl(x, m), Shr(x, WordBits - m))

\* u32::rotate_right(n)
rotate_right(x, n) == rotate_left(x, (WordBits - (n % WordBits)) % WordBits)

\* u32::wrapping_add
wrapping_add(x, y) ==
  <<(x[1] + y[1] + ((x[2] + y[2]) \div Half)) % Half, (x[2] + y[2]) % Half>>

\* (b as u32).wrapping_mul(m) for a u8 b
wrapping_mul(b, m) ==
  <<((m[1] * b) + ((m[2] * b) \div Half)) % Half, (m[2] * b) % Half>>

\* u32 < u32
Less(x, y) == x[1] < y[1] \/ (x[1] = y[1] /\ x[2] < y[2])
\* std::cmp::min
min(x, y) == IF Less(y, x) THEN y ELSE x

\* a as u32
U32(a) == <<a \div Half, a % Half>>
\* u32::MAX
U32MAX == <<Half - 1, Half - 1>>
\* (1 << n) - 1 for 0 <= n <= 32
LowBits(n) ==
  IF n >= WordBits THEN U32MAX
  ELSE IF n >= 16 THEN <<2^(n - 16) - 1, Half - 1>>
  ELSE <<0, 2^n - 1>>

\* packed_seq::complement_base: b ^ 2
complement_base(b) == Xor16(b, 2)

\* ------------------------------------------------- CharHasher: NtHasher

\* Original ntHash seed values, truncated to u32 (A, C, T, G).
HASHES_F ==
  << <<38342, 1140>>, <<25248, 11084>>, <<33367, 8996>>, <<19426, 17494>> >>

\* The seed the tests construct their seeded hashers with.
Seed == 31415

\* SeedHasher::hash_one(HASHES_F[i] ^ seed) as u32 for seed = Seed: SipHash-1-3
\* with zero keys of the four little-endian bytes.
hash_one_table ==
  << <<35967, 18708>>, <<12850, 41489>>, <<34497, 62265>>, <<23034, 54836>> >>

\* SeedHasher::hash_one(seed) as u32 for seed = Seed.
hash_one_seed == <<37063, 49705>>

\* NtHasher::new_with_seed: the table f (seed 0 stands for None).
NtF(h) == IF h.seed = 0 THEN HASHES_F ELSE hash_one_table
\* NtHasher::new_with_seed: let rot = k as u32 - 1; rotations are by rot * R.
NtRot(h) == (h.k - 1) * R

\* ------------------------------------------------ CharHasher: MulHasher

\* Mixing constant 0x517cc1b727220a95 as u32.
C == <<10018, 2709>>

\* MulHasher::new_with_seed: rot and mul.
MulRot(h) == (h.k - 1) % 32
MulMul(h) ==
  Xor(C, IF h.seed = 0 THEN <<0, 0>> ELSE Shl(hash_one_seed, 1))

\* ------------------------------------------------------------- CharHasher

\* Hash b.
f(h, b) ==
  IF h.fam = "Nt" THEN NtF(h)[b + 1] ELSE wrapping_mul(b, MulMul(h))

\* Hash the complement of b.
c(h, b) ==
  IF h.fam = "Nt"
  THEN NtF(h)[complement_base(b) + 1]
  ELSE wrapping_mul(complement_base(b), MulMul(h))

\* f_rot without the rotation: f.
f_rot_unrotated(h, b) ==
  IF h.fam = "Nt" THEN NtF(h)[b + 1] ELSE wrapping_mul(b, MulMul(h))

\* Hash b, left rotated by (k-1)*R steps.
f_rot(h, b) ==
  IF h.fam = "Nt"
  THEN rotate_left(NtF(h)[b + 1], NtRot(h))
  ELSE rotate_left(wrapping_mul(b, MulMul(h)), MulRot(h) * R)

\* c_rot without the complement: f_rot.
c_rot_no_complement(h, b) ==
  IF h.fam = "Nt"
  THEN rotate_left(NtF(h)[b + 1], NtRot(h))
  ELSE rotate_left(wrapping_mul(b, MulMul(h)), MulRot(h) * R)

\* Hash the complement of b, left rotated by (k-1)*R steps.
c_rot(h, b) ==
  IF h.fam = "Nt"
  THEN rotate_left(NtF(h)[complement_base(b) + 1], NtRot(h))
  ELSE rotate_left(wrapping_mul(complement_base(b), MulMul(h)), MulRot(h) * R)

\* One iteration of the loop of fw_init.
fw_init_step(h, fw) == Xor(rotate_left(fw, R), f(h, 0))
\* One iteration of the loop of rc_init.
rc_init_step(h, rc) == Xor(rotate_right(rc, R), c_rot(h, 0))

\* fw_init and rc_init after n iterations of their loops, from 0.
RECURSIVE fw_init_loop(_, _)
fw_init_loop(h, n) ==
  IF n = 0 THEN <<0, 0>> ELSE fw_init_step(h, fw_init_loop(h, n - 1))
RECURSIVE rc_init_loop(_, _)
rc_init_loop(h, n) ==
  IF n = 0 THEN <<0, 0>> ELSE rc_init_step(h, rc_init_loop(h, n - 1))

\* ---------------------------------------------------------- AntiLexHasher

\* The shift of the full register, whatever k.
AntiLexShift_full(k) == 32 - AntiLexBits

\* AntiLexHasher::new: shift, anti and mask for kmers of length k.
AntiLexShift(k) ==
  IF AntiLexBits * k <= 32 THEN AntiLexBits * (k - 1) ELSE 32 - AntiLexBits
AntiLexAnti(k) == Shl(LowBits(AntiLexBits), AntiLexShift(k))
\* The mask of the full register, whatever k.
AntiLexMask_full(k) == U32MAX
AntiLexMask(k) ==
  IF AntiLexBits * k < 32 THEN LowBits(AntiLexBits * k) ELSE U32MAX

\* ----------------------------------------------------------------- delay

\* The delay without the override of AntiLexHasher<true>.
delay_default(h) == h.k - 1

\* The delay one too large.
delay_k(h) == h.k

\* KmerHasher::delay: k-1, and k.saturating_sub(32 / b) for AntiLexHasher<true>.
delay(h) ==
  IF h.fam = "AntiLex" /\ h.canonical
  THEN IF h.k > 32 \div AntiLexBits THEN h.k - (32 \div AntiLexBits) ELSE 0
  ELSE h.k - 1

\* --------------------------------------------------- closures: the state
\* A closure's captured variables are a record; a call returns the record
\* after the call together with the value returned, in field ret.

NoState == [fw |-> <<0, 0>>, rc |-> <<0, 0>>, i |-> 0, shift |-> 0,
            anti |-> <<0, 0>>, mask |-> <<0, 0>>, ambiguous |-> 0,
            ret |-> <<0, 0>>]

\* ------------------------------------------ in_out_mapper_scalar (closure)

\* The closure with the outgoing symbol cancelled from rc by c_rot instead of c.
CH_in_out_c_rot(h, s, a, r) ==
  LET fw_out == Xor(rotate_left(s.fw, R), f(h, a))
      rc_out == Xor(rotate_right(s.rc, R), c_rot(h, a))
  IN  IF h.canonical
      THEN [s EXCEPT !.fw = Xor(fw_out, f_rot(h, r)),
                     !.rc = Xor(rc_out, c_rot(h, r)),
                     !.ret = wrapping_add(fw_out, rc_out)]
      ELSE [s EXCEPT !.fw = Xor(fw_out, f_rot(h, r)),
                     !.ret = fw_out]

\* impl KmerHasher for CH: move |(a, r)| { ... }
CH_in_out(h, s, a, r) ==
  LET fw_out == Xor(rotate_left(s.fw, R), f(h, a))
      rc_out == Xor(rotate_right(s.rc, R), c_rot(h, a))
  IN  IF h.canonical
      THEN [s EXCEPT !.fw = Xor(fw_out, f_rot(h, r)),
                     !.rc = Xor(rc_out, c(h, r)),
                     !.ret = wrapping_add(fw_out, rc_out)]
      ELSE [s EXCEPT !.fw = Xor(fw_out, f_rot(h, r)),
                     !.ret = fw_out]

\* impl KmerHasher for AntiLexHasher<false>: move |(a, _r)| { ... }
AntiLexFwd_in_out(h, s, a, r) ==
  LET fw == Xor(Shr(s.fw, AntiLexBits), Shl(U32(a), AntiLexShift(h.k)))
  IN  [s EXCEPT !.fw = fw, !.ret = Xor(fw, AntiLexAnti(h.k))]

\* impl KmerHasher for AntiLexHasher<true>: move |(a, r)| { ... }
AntiLexCan_in_out(h, s, a, r) ==
  LET fw == Xor(Shr(s.fw, AntiLexBits), Shl(U32(a), AntiLexShift(h.k)))
      rc == Xor(And(Shl(s.rc, AntiLexBits), AntiLexMask(h.k)),
                U32(Xor16(r, 2)))
  IN  [s EXCEPT !.fw = fw, !.rc = rc,
                !.ret = min(Xor(fw, AntiLexAnti(h.k)), Xor(rc, AntiLexAnti(h.k)))]

\* KmerHasher::in_out_mapper_scalar: one call of the closure.
in_out_mapper_scalar(h, s, a, r) ==
  IF h.fam = "AntiLex"
  THEN IF h.canonical THEN AntiLexCan_in_out(h, s, a, r)
                      ELSE AntiLexFwd_in_out(h, s, a, r)
  ELSE CH_in_out(h, s, a, r)

\* ------------------------------------------------------ mapper (closure)

\* impl KmerHasher for CH: mapper: move |a| { ... }
CH_mapper(h, s, a) ==
  LET fw == Xor(rotate_left(s.fw, R), f(h, a))
      rc == Xor(rotate_right(s.rc, R), c_rot(h, a))
  IN  IF h.canonical
      THEN [s EXCEPT !.fw = fw, !.rc = rc, !.ret = wrapping_add(fw, rc)]
      ELSE [s EXCEPT !.fw = fw, !.ret = fw]

\* AntiLexHasher<false>::mapper: shift and anti come from seq.len().
AntiLexFwd_mapper_new(len) ==
  [NoState EXCEPT !.shift = AntiLexShift(len), !.anti = AntiLexAnti(len)]
AntiLexFwd_mapper(h, s, a) ==
  LET fw == Xor(Shr(s.fw, AntiLexBits), Shl(U32(a), s.shift))
  IN  [s EXCEPT !.fw = fw, !.ret = Xor(fw, s.anti)]

\* AntiLexHasher<true>::mapper: shift, anti and mask grow with the calls.
AntiLexCan_mapper_new ==
  [NoState EXCEPT !.anti = LowBits(AntiLexBits), !.mask = LowBits(AntiLexBits)]
AntiLexCan_mapper(h, s, a) ==
  LET fw0 == IF s.i * AntiLexBits >= 32 THEN Shr(s.fw, AntiLexBits) ELSE s.fw
      fw  == Xor(fw0, Shl(U32(a), s.shift))
      rc  == IF s.i * AntiLexBits < 32
             THEN Xor(And(Shl(s.rc, AntiLexBits), s.mask), U32(Xor16(a, 2)))
             ELSE s.rc
      grow == (s.i + 1) * AntiLexBits < 32
  IN  [s EXCEPT
         !.fw = fw, !.rc = rc, !.i = s.i + 1,
         !.shift = IF grow THEN s.shift + AntiLexBits ELSE s.shift,
         !.anti = IF grow THEN Shl(s.anti, AntiLexBits) ELSE s.anti,
         !.mask = IF grow THEN Or(Shl(s.mask, AntiLexBits), LowBits(AntiLexBits))
                  ELSE s.mask,
         !.ret = min(Xor(fw, s.anti), Xor(rc, s.anti))]

\* KmerHasher::mapper(seq): the closure as constructed, seq of length len.
mapper_new(h, len) ==
  IF h.fam = "AntiLex"
  THEN IF h.canonical THEN AntiLexCan_mapper_new ELSE AntiLexFwd_mapper_new(len)
  ELSE NoState

\* KmerHasher::mapper: one call of the closure.
mapper(h, s, a) ==
  IF h.fam = "AntiLex"
  THEN IF h.canonical THEN AntiLexCan_mapper(h, s, a) ELSE AntiLexFwd_mapper(h, s, a)
  ELSE CH_mapper(h, s, a)

\* ------------------------------------------------------------- the inputs

\* The sequence of the crate's doc example, ACGGCAGCGCATATGTAGT, packed
\* (A = 0, C = 1, T = 2, G = 3).
DocSeq == <<0, 1, 3, 3, 1, 0, 3, 1, 3, 1, 0, 2, 0, 2, 3, 2, 0, 3, 2>>
\* The same text as plain bytes (bits_per_char = 8).
DocBytes ==
  <<65, 67, 71, 71, 67, 65, 71, 67, 71, 67, 65, 84, 65, 84, 71, 84, 65, 71, 84>>

\* The p-th window of k symbols of s.
Window(s, k, p) == SubSeq(s, p, p + k - 1)

Reverse(s) == [i \in 1..Len(s) |-> s[Len(s) + 1 - i]]
\* Seq::to_revcomp: the sequence read backward, every symbol complemented.
to_revcomp(s) == [i \in 1..Len(s) |-> complement_base(s[Len(s) + 1 - i])]

\* A text long enough for the k whose rotation wraps around.
LongSeq == DocSeq \o Reverse(DocSeq)

\* All sequences over syms of length at most n.
RECURSIVE SeqsUpTo(_, _)
SeqsUpTo(syms, n) ==
  IF n = 0 THEN {<<>>}
  ELSE LET shorter == SeqsUpTo(syms, n - 1)
       IN  shorter \cup {Append(t, a) : t \in {u \in shorter : Len(u) = n - 1}, a \in syms}

\* The k whose rotation (k-1)*R is a multiple of 32 again.
WrapK == WordBits + 1
\* The k at which the 32-bit register of AntiLexHasher is full.
SatK == WordBits \div AntiLexBits

Ks(fam) ==
  IF fam = "AntiLex" THEN (1..MaxK) \cup ((SatK - 1)..(SatK + 2))
  ELSE (1..MaxK) \cup {WrapK}

Hashers ==
  [fam : {"Nt", "Mul"}, canonical : BOOLEAN, k : Ks("Nt"), seed : {0, Seed}]
  \cup [fam : {"AntiLex"}, canonical : BOOLEAN, k : Ks("AntiLex"), seed : {0}]

\* Symbols of the short sequences: 2-bit symbols, and bytes for MulHasher.
Symbols(h) == IF h.fam = "Mul" THEN {0, 2, 65, 255} ELSE 0..3

Texts(h) ==
  IF h.fam = "Mul" THEN {DocSeq, DocBytes, LongSeq} ELSE {DocSeq, LongSeq}

\* The k-mer G^15 A: the forward AntiLex word with all bits set.
AntiLexMaxKmer == [i \in 1..SatK |-> IF i = SatK THEN 0 ELSE 3]
\* The k-mer TTAAAGGCCTATTAA, whose forward ntHash has all bits set.
NtMaxKmer == <<2, 2, 0, 0, 0, 3, 3, 1, 1, 2, 0, 2, 2, 0, 0>>

\* The sequences hasher h is run on: every short sequence, and the texts
\* that hold a k-mer.
Inputs(h) ==
  SeqsUpTo(Symbols(h), MaxLen)
    \cup {t \in Texts(h) : Len(t) >= h.k}
    \cup (IF h.fam = "AntiLex" THEN {AntiLexMaxKmer} ELSE {})

\* The hashers with the sequences each is run on.
Cases ==
  UNION {{<<h, s>> : s \in Inputs(h)} : h \in Hashers}
    \cup {<<[fam |-> "Nt", canonical |-> FALSE, k |-> Len(NtMaxKmer), seed |-> 0],
            NtMaxKmer>>}

\* ------------------------------------------------------------- the state

VARIABLES
  todo,    \* the calls the caller has still to make
  cur,     \* the call in progress
  pc,      \* "idle", or where the call in progress is
  st,      \* the captured variables of the closure of the call in progress
  add,     \* position of the iterator add (of the sequence's only iterator)
  remove,  \* position of the iterator remove
  out,     \* what the iterator of the call in progress has yielded
  res,     \* the finished calls with their values, in order
  parked   \* the other streams of the caller, each where it was left

vars == <<todo, cur, pc, st, add, remove, out, res, parked>>

\* A call: the function, the hasher self, the sequence seq; the ambiguity
\* flags of a PackedNSeq, one per symbol; the (in, out) pairs a closure is
\* called with; the number of symbols the sequence stores per byte.
NoCall == [fn |-> "none", h |-> [fam |-> "Nt", canonical |-> FALSE, k |-> 1, seed |-> 0],
           s |-> <<>>, ambiguous |-> <<>>, pairs |-> <<>>, stride |-> 1,
           bits |-> 2, alone |-> TRUE]

\* seq.bits_per_char() of the sequences the tests pass: 2 for AsciiSeq and
\* PackedSeq (symbols 0..3), 8 for a slice of bytes.
BitsOf(s) == IF \A i \in 1..Len(s) : s[i] < 4 THEN 2 ELSE 8

CallOf(fn, h, s) == [NoCall EXCEPT !.fn = fn, !.h = h, !.s = s, !.bits = BitsOf(s)]

\* CharHasher::BITS_PER_CHAR, and b of AntiLexHasher.
BITS_PER_CHAR(h) == IF h.fam = "Mul" THEN 8 ELSE 2

\* The assertion that lets every sequence through.
bits_fit_always(call) == TRUE

\* assert!(seq.bits_per_char() <= CH::BITS_PER_CHAR), the first statement
\* of mapper, in_out_mapper_scalar and in_out_mapper_simd.
bits_fit(call) == call.bits <= BITS_PER_CHAR(call.h)

\* A finished call with the value it returned.
Returned(call, val) ==
  [fn |-> call.fn, h |-> call.h, s |-> call.s, ambiguous |-> call.ambiguous,
   pairs |-> call.pairs, stride |-> call.stride, bits |-> call.bits, alone |-> call.alone,
   val |-> val]

\* The functions that work on wide::u32x8.
IsSimd(fn) ==
  fn \in {"in_out_mapper_simd", "hash_kmers_simd", "hash_valid_kmers_simd"}

\* S::splat
splat(x) == <<x, x, x, x, x, x, x, x>>

\* Where a call goes on once its closure is built.
Start(fn) ==
  CASE fn = "hash_kmers_scalar" -> "run"
    [] fn = "hash_valid_kmers_scalar" -> "valid"
    [] fn \in {"hash_kmers_simd", "hash_valid_kmers_simd"} -> "simd"
    [] OTHER -> "closure"

\* The captured fw and rc of the closure just built:
\* self.fw_init() and self.rc_init(), or S::splat of them.
closure_new(fn, s) ==
  IF IsSimd(fn)
  THEN [s EXCEPT !.fw = splat(s.fw), !.rc = splat(s.rc), !.ret = splat(s.ret),
                 !.i = 0]
  ELSE [s EXCEPT !.i = 0]

\* test_hash: naive is hash_seq of every window of k symbols.
Windows(h, s) ==
  [w \in 1..(IF Len(s) >= h.k THEN Len(s) - h.k + 1 ELSE 0) |->
     CallOf("hash_seq", h, SubSeq(s, w, w + h.k - 1))]

InitWith(calls) ==
  /\ todo = calls
  /\ cur = NoCall
  /\ pc = "idle"
  /\ st = NoState
  /\ add = 0
  /\ remove = 0
  /\ out = <<>>
  /\ res = <<>>
  /\ parked = <<>>

\* ------------------------------------------------- hash_seq, hash_prefixes

\* hash_seq / hash_prefixes: seq.iter_bp().map(self.mapper(seq)) is built.
call_mapper ==
  /\ pc = "idle"
  /\ todo # <<>>
  /\ Head(todo).fn \in {"hash_seq", "hash_prefixes"}
  /\ bits_fit(Head(todo))
  /\ cur' = Head(todo)
  /\ todo' = Tail(todo)
  /\ st' = mapper_new(Head(todo).h, Len(Head(todo).s))
  /\ pc' = "map"
  /\ add' = 0
  /\ remove' = 0
  /\ out' = <<>>
  /\ UNCHANGED res
  /\ UNCHANGED parked

\* The iterator yields its next item: the closure is called on the next symbol.
\* last() of hash_seq keeps the latest item only.
map_next ==
  /\ pc = "map"
  /\ add < Len(cur.s)
  /\ LET s2 == mapper(cur.h, st, cur.s[add + 1])
     IN  /\ st' = s2
         /\ out' = IF cur.fn = "hash_seq" THEN <<s2.ret>> ELSE Append(out, s2.ret)
  /\ add' = add + 1
  /\ UNCHANGED <<todo, cur, pc, remove, res>>
  /\ UNCHANGED parked

\* The iterator is exhausted: hash_seq returns last().unwrap_or(0),
\* hash_prefixes has yielded all its items.
map_done ==
  /\ pc = "map"
  /\ add = Len(cur.s)
  /\ res' = Append(res, Returned(cur, IF cur.fn = "hash_seq"
                                      THEN (IF out = <<>> THEN <<0, 0>> ELSE out[1])
                                      ELSE out))
  /\ pc' = "idle"
  /\ cur' = NoCall
  /\ st' = NoState
  /\ add' = 0
  /\ out' = <<>>
  /\ UNCHANGED <<todo, remove>>
  /\ UNCHANGED parked

\* ------------------------------------------------------- hash_kmers_scalar

\* hash_kmers_scalar: the iterators add and remove and the closure
\* in_out_mapper_scalar(seq) are built; for a CharHasher the closure
\* starts from fw_init() and rc_init().
call_hash_kmers_scalar ==
  /\ pc = "idle"
  /\ todo # <<>>
  /\ Head(todo).fn = "hash_kmers_scalar"
  /\ bits_fit(Head(todo))
  /\ cur' = Head(todo)
  /\ todo' = Tail(todo)
  /\ st' = NoState
  /\ pc' = IF Head(todo).h.fam = "AntiLex" THEN "run" ELSE "fw_init"
  /\ add' = 0
  /\ remove' = 0
  /\ out' = <<>>
  /\ UNCHANGED res
  /\ UNCHANGED parked

\* fw_init: for _ in 0..k-1 { fw = fw.rotate_left(R) ^ f(0) }
fw_init ==
  /\ pc = "fw_init"
  /\ IF st.i < cur.h.k - 1
     THEN /\ st' = [st EXCEPT !.fw = fw_init_step(cur.h, st.fw), !.i = st.i + 1]
          /\ pc' = pc
     ELSE /\ st' = [st EXCEPT !.i = 0]
          /\ pc' = "rc_init"
  /\ UNCHANGED <<todo, cur, add, remove, out, res>>
  /\ UNCHANGED parked

\* rc_init: for _ in 0..k-1 { rc = rc.rotate_right(R) ^ c_rot(0) }
rc_init ==
  /\ pc = "rc_init"
  /\ IF st.i < cur.h.k - 1
     THEN /\ st' = [st EXCEPT !.rc = rc_init_step(cur.h, st.rc), !.i = st.i + 1]
          /\ pc' = pc
     ELSE /\ st' = closure_new(cur.fn, st)
          /\ pc' = Start(cur.fn)
  /\ UNCHANGED <<todo, cur, add, remove, out, res>>
  /\ UNCHANGED parked

\* zip(add.by_ref().take(delay), repeat(0)).for_each(mapper)
prime ==
  /\ pc = "run"
  /\ cur.fn = "hash_kmers_scalar"
  /\ add < delay(cur.h)
  /\ add < Len(cur.s)
  /\ st' = in_out_mapper_scalar(cur.h, st, cur.s[add + 1], 0)
  /\ add' = add + 1
  /\ UNCHANGED <<todo, cur, pc, remove, out, res>>
  /\ UNCHANGED parked

\* zip(add.by_ref(), remove.by_ref()).take(k - 1 - delay).for_each(mapper)
pair ==
  /\ pc = "run"
  /\ cur.fn = "hash_kmers_scalar"
  /\ add >= delay(cur.h)
  /\ remove < cur.h.k - 1 - delay(cur.h)
  /\ add < Len(cur.s)
  /\ st' = in_out_mapper_scalar(cur.h, st, cur.s[add + 1], cur.s[remove + 1])
  /\ add' = add + 1
  /\ remove' = remove + 1
  /\ UNCHANGED <<todo, cur, pc, out, res>>
  /\ UNCHANGED parked

\* zip(add, remove).map(mapper): the returned iterator yields its next item.
emit ==
  /\ pc = "run"
  /\ cur.fn = "hash_kmers_scalar"
  /\ add >= delay(cur.h)
  /\ remove >= cur.h.k - 1 - delay(cur.h)
  /\ add < Len(cur.s)
  /\ LET s2 == in_out_mapper_scalar(cur.h, st, cur.s[add + 1], cur.s[remove + 1])
     IN  /\ st' = s2
         /\ out' = Append(out, s2.ret)
  /\ add' = add + 1
  /\ remove' = remove + 1
  /\ UNCHANGED <<todo, cur, pc, res>>
  /\ UNCHANGED parked

\* The sequence is exhausted: the iterator ends (in whatever phase).
stream_done ==
  /\ pc = "run"
  /\ cur.fn = "hash_kmers_scalar"
  /\ add = Len(cur.s)
  /\ res' = Append(res, Returned(cur, out))
  /\ pc' = "idle"
  /\ cur' = NoCall
  /\ st' = NoState
  /\ add' = 0
  /\ remove' = 0
  /\ out' = <<>>
  /\ UNCHANGED todo
  /\ UNCHANGED parked

\* --------------------------------- test_hash: naive, then scalar streaming

Init ==
  \E case \in Cases :
    InitWith(Windows(case[1], case[2])
               \o <<CallOf("hash_kmers_scalar", case[1], case[2])>>)

Next ==
  \/ call_mapper
  \/ map_next
  \/ map_done
  \/ call_hash_kmers_scalar
  \/ fw_init
  \/ rc_init
  \/ prime
  \/ pair
  \/ emit
  \/ stream_done

Spec == Init /\ [][Next]_vars

\* ------------------ canonical_is_revcomp: a sequence, its reverse complement

\* The canonical hashers, each with its 2-bit sequences.
CanonicalCases ==
  UNION {{<<h, s>> : s \in SeqsUpTo(0..3, MaxLen)
                        \cup {t \in {DocSeq, LongSeq, AntiLexMaxKmer} : Len(t) >= h.k}}
         : h \in {g \in Hashers : g.canonical}}

InitRevcomp ==
  \E case \in CanonicalCases :
    InitWith(<<CallOf("hash_kmers_scalar", case[1], case[2]),
               CallOf("hash_kmers_scalar", case[1], to_revcomp(case[2]))>>)

NextRevcomp ==
  \/ call_hash_kmers_scalar
  \/ fw_init
  \/ rc_init
  \/ prime
  \/ pair
  \/ emit
  \/ stream_done

SpecRevcomp == InitRevcomp /\ [][NextRevcomp]_vars

\* ------------------------- one-shot hashing: hash_prefixes and hash_seq,
\* by a hasher and by the hasher that differs from it in k only

\* The next larger k the hashers of a family are built for.
NextK(fam, k) ==
  CHOOSE j \in Ks(fam) : j > k /\ \A i \in Ks(fam) : i > k => j <= i

\* The hashers (but for the largest k) with every non-empty input.
OneShotCases ==
  UNION {{<<h, s>> : s \in (UNION {Inputs(g) : g \in {x \in Hashers : x.fam = h.fam}})
                        \ {<<>>}}
         : h \in {g \in Hashers : \E j \in Ks(g.fam) : j > g.k}}

\* hash_seq of every non-empty prefix of s.
Prefixes(h, s) ==
  [j \in 1..Len(s) |-> CallOf("hash_seq", h, SubSeq(s, 1, j))]

InitOneShot ==
  \E case \in OneShotCases :
    LET h  == case[1]
        h2 == [h EXCEPT !.k = NextK(h.fam, h.k)]
    IN  InitWith(<<CallOf("hash_prefixes", h, case[2])>>
                   \o Prefixes(h, case[2])
                   \o <<CallOf("hash_prefixes", h2, case[2]),
                        CallOf("hash_seq", h2, case[2])>>)

NextOneShot ==
  \/ call_mapper
  \/ map_next
  \/ map_done

SpecOneShot == InitOneShot /\ [][NextOneShot]_vars

\* ------------------------------------------------- ambiguous-window mask

\* BitSeq::iter_kmer_ambiguity(k) of the sequence collaborator: one bit per
\* k-mer, set when a symbol of the k-mer is flagged.
iter_kmer_ambiguity(flags, k) ==
  [j \in 1..(IF Len(flags) >= k THEN Len(flags) - k + 1 ELSE 0) |->
     \E i \in j..(j + k - 1) : flags[i]]

\* The mask that lets every hash through.
masked_never(ambiguous, hash) == hash

\* if ambiguous { u32::MAX } else { hash }; is_ambiguous.blend(S::MAX, hash)
\* in one lane.
masked(ambiguous, hash) == IF ambiguous THEN U32MAX ELSE hash

\* in_out_mapper_ambiguous_scalar: one call of the closure. i counts the
\* calls, ambiguous is the position of the iterator of ambiguity bits.
in_out_mapper_ambiguous_scalar(call, s, a, r) ==
  LET s2   == in_out_mapper_scalar(call.h, s, a, r)
      bits == iter_kmer_ambiguity(call.ambiguous, call.h.k)
      next == s.i > call.h.k - 1
  IN  [s2 EXCEPT !.i = s.i + 1,
                 !.ambiguous = IF next THEN s.ambiguous + 1 ELSE s.ambiguous,
                 !.ret = masked(IF next THEN bits[s.ambiguous + 1] ELSE FALSE,
                                s2.ret)]

\* hash_valid_kmers_scalar: the iterators a and r and the closure are built.
call_hash_valid_kmers_scalar ==
  /\ pc = "idle"
  /\ todo # <<>>
  /\ Head(todo).fn = "hash_valid_kmers_scalar"
  /\ bits_fit(Head(todo))
  /\ delay(Head(todo).h) < Head(todo).h.k
  /\ cur' = Head(todo)
  /\ todo' = Tail(todo)
  /\ st' = NoState
  /\ pc' = IF Head(todo).h.fam = "AntiLex" THEN "valid" ELSE "fw_init"
  /\ add' = 0
  /\ remove' = 0
  /\ out' = <<>>
  /\ UNCHANGED res
  /\ UNCHANGED parked

\* a.by_ref().take(delay.0).for_each(|a| mapper((a, 0)))
valid_prime ==
  /\ pc = "valid"
  /\ add < delay(cur.h)
  /\ add < Len(cur.s)
  /\ st' = in_out_mapper_scalar(cur.h, st, cur.s[add + 1], 0)
  /\ add' = add + 1
  /\ UNCHANGED <<todo, cur, pc, remove, out, res>>
  /\ UNCHANGED parked

\* zip(a.by_ref(), r.by_ref()).take((k - 1) - delay.0).for_each(mapper)
valid_pair ==
  /\ pc = "valid"
  /\ add >= delay(cur.h)
  /\ remove < cur.h.k - 1 - delay(cur.h)
  /\ add < Len(cur.s)
  /\ st' = in_out_mapper_scalar(cur.h, st, cur.s[add + 1], cur.s[remove + 1])
  /\ add' = add + 1
  /\ remove' = remove + 1
  /\ UNCHANGED <<todo, cur, pc, out, res>>
  /\ UNCHANGED parked

\* zip(zip(a, r), nseq.ambiguous.iter_kmer_ambiguity(k)).map(...): the
\* returned iterator yields its next item.
valid_emit ==
  /\ pc = "valid"
  /\ add >= delay(cur.h)
  /\ remove >= cur.h.k - 1 - delay(cur.h)
  /\ add < Len(cur.s)
  /\ st.ambiguous < Len(iter_kmer_ambiguity(cur.ambiguous, cur.h.k))
  /\ LET s2 == in_out_mapper_scalar(cur.h, st, cur.s[add + 1], cur.s[remove + 1])
         ambiguous == iter_kmer_ambiguity(cur.ambiguous, cur.h.k)[st.ambiguous + 1]
     IN  /\ st' = [s2 EXCEPT !.ambiguous = st.ambiguous + 1]
         /\ out' = Append(out, masked(ambiguous, s2.ret))
  /\ add' = add + 1
  /\ remove' = remove + 1
  /\ UNCHANGED <<todo, cur, pc, res>>
  /\ UNCHANGED parked

\* The sequence is exhausted, and with it the ambiguity bits.
valid_done ==
  /\ pc = "valid"
  /\ add = Len(cur.s)
  /\ res' = Append(res, Returned(cur, out))
  /\ pc' = "idle"
  /\ cur' = NoCall
  /\ st' = NoState
  /\ add' = 0
  /\ remove' = 0
  /\ out' = <<>>
  /\ UNCHANGED todo
  /\ UNCHANGED parked

\* ----------------------------------------------------------- SIMD lanes

\* A u32x8 of the values F[l], l = 1..L.
Lanes(F) == <<F[1], F[2], F[3], F[4], F[5], F[6], F[7], F[8]>>

\* NtHasher::new_with_seed: let idx = [0, 1, 2, 3, 0, 1, 2, 3]; the SIMD
\* table of a scalar table t is idx.map(|i| t[i]).
idx == <<0, 1, 2, 3, 0, 1, 2, 3>>

\* intrinsics::table_lookup(t, b) in one lane: the entry of t that b selects.
table_lookup(t, b) == t[(b % L) + 1]

\* u32x8 >> n in one lane. A count of 32 leaves zero where the vector shift
\* instruction is used and the value itself where the count is masked.
WideShift == {"zero", "masked"}
simd_shr(x, n, wide) ==
  IF n < WordBits THEN Shr(x, n)
  ELSE IF wide = "zero" THEN <<0, 0>> ELSE Shr(x, n % WordBits)

\* CharHasher::simd_f, simd_c, simd_f_rot, simd_c_rot in one lane.
simd_f(h, b) ==
  IF h.fam = "Nt" THEN table_lookup([i \in 1..L |-> f(h, idx[i])], b)
  ELSE wrapping_mul(b, MulMul(h))

simd_c(h, b) ==
  IF h.fam = "Nt" THEN table_lookup([i \in 1..L |-> c(h, idx[i])], b)
  ELSE wrapping_mul(complement_base(b), MulMul(h))

simd_f_rot(h, b, wide) ==
  IF h.fam = "Nt" THEN table_lookup([i \in 1..L |-> f_rot(h, idx[i])], b)
  ELSE LET r   == wrapping_mul(b, MulMul(h))
           rot == (MulRot(h) * R) % 32
       IN  Or(Shl(r, rot), simd_shr(r, 32 - rot, wide))

simd_c_rot(h, b, wide) ==
  IF h.fam = "Nt" THEN table_lookup([i \in 1..L |-> c_rot(h, idx[i])], b)
  ELSE LET r   == wrapping_mul(complement_base(b), MulMul(h))
           rot == (MulRot(h) * R) % 32
       IN  Or(Shl(r, rot), simd_shr(r, 32 - rot, wide))

\* The closure with rc rotated to the left, as fw is.
CH_in_out_simd_rotl(h, s, a, r, wide) ==
  LET fw_out == [l \in 1..L |->
                   Xor(Or(Shl(s.fw[l], R), Shr(s.fw[l], WordBits - R)),
                       simd_f(h, a[l]))]
      rc_out == [l \in 1..L |->
                   Xor(Or(Shl(s.rc[l], R), Shr(s.rc[l], WordBits - R)),
                       simd_c_rot(h, a[l], wide))]
      fw     == [l \in 1..L |-> Xor(fw_out[l], simd_f_rot(h, r[l], wide))]
      rc     == [l \in 1..L |-> Xor(rc_out[l], simd_c(h, r[l]))]
      sum    == [l \in 1..L |-> wrapping_add(fw_out[l], rc_out[l])]
  IN  IF h.canonical
      THEN [s EXCEPT !.fw = Lanes(fw), !.rc = Lanes(rc), !.ret = Lanes(sum)]
      ELSE [s EXCEPT !.fw = Lanes(fw), !.ret = Lanes(fw_out)]

\* impl KmerHasher for CH: in_out_mapper_simd: move |(a, r)| { ... }
CH_in_out_simd(h, s, a, r, wide) ==
  LET fw_out == [l \in 1..L |->
                   Xor(Or(Shl(s.fw[l], R), Shr(s.fw[l], WordBits - R)),
                       simd_f(h, a[l]))]
      rc_out == [l \in 1..L |->
                   Xor(Or(Shr(s.rc[l], R), Shl(s.rc[l], WordBits - R)),
                       simd_c_rot(h, a[l], wide))]
      fw     == [l \in 1..L |-> Xor(fw_out[l], simd_f_rot(h, r[l], wide))]
      rc     == [l \in 1..L |-> Xor(rc_out[l], simd_c(h, r[l]))]
      sum    == [l \in 1..L |-> wrapping_add(fw_out[l], rc_out[l])]
  IN  IF h.canonical
      THEN [s EXCEPT !.fw = Lanes(fw), !.rc = Lanes(rc), !.ret = Lanes(sum)]
      ELSE [s EXCEPT !.fw = Lanes(fw), !.ret = Lanes(fw_out)]

\* AntiLexHasher<false>::in_out_mapper_simd: move |(a, _r)| { ... }
AntiLexFwd_in_out_simd(h, s, a, r) ==
  LET fw  == [l \in 1..L |->
                Xor(Shr(s.fw[l], AntiLexBits), Shl(U32(a[l]), AntiLexShift(h.k)))]
      ret == [l \in 1..L |-> Xor(fw[l], AntiLexAnti(h.k))]
  IN  [s EXCEPT !.fw = Lanes(fw), !.ret = Lanes(ret)]

\* AntiLexHasher<true>::in_out_mapper_simd: move |(a, r)| { ... }
AntiLexCan_in_out_simd(h, s, a, r) ==
  LET fw  == [l \in 1..L |->
                Xor(Shr(s.fw[l], AntiLexBits), Shl(U32(a[l]), AntiLexShift(h.k)))]
      rc  == [l \in 1..L |->
                Xor(And(Shl(s.rc[l], AntiLexBits), AntiLexMask(h.k)),
                    Xor(U32(r[l]), U32(2)))]
      ret == [l \in 1..L |->
                min(Xor(fw[l], AntiLexAnti(h.k)), Xor(rc[l], AntiLexAnti(h.k)))]
  IN  [s EXCEPT !.fw = Lanes(fw), !.rc = Lanes(rc), !.ret = Lanes(ret)]

\* KmerHasher::in_out_mapper_simd: one call of the closure.
in_out_mapper_simd(h, s, a, r, wide) ==
  IF h.fam = "AntiLex"
  THEN IF h.canonical THEN AntiLexCan_in_out_simd(h, s, a, r)
                      ELSE AntiLexFwd_in_out_simd(h, s, a, r)
  ELSE CH_in_out_simd(h, s, a, r, wide)

\* ------------------------------------- the lanes of the sequence collaborator
\* Seq::par_iter_bp_delayed(context, delay) cuts the sequence into L chunks,
\* one per lane, each of n windows of context symbols and so overlapping the
\* next by context - 1 symbols; n is a multiple of align. The windows past the
\* last of the sequence are padding, the symbols past its end read as 0.

\* The context the callers ask for.
Context == 1

CeilDiv(a, b) == (a + b - 1) \div b
NumWindows(len, context) == IF len >= context - 1 THEN len - (context - 1) ELSE 0
ChunkLen(len, context, align) ==
  CeilDiv(CeilDiv(NumWindows(len, context), L), align) * align
NumSteps(len, context, align) ==
  IF NumWindows(len, context) = 0 THEN 0
  ELSE ChunkLen(len, context, align) + context - 1
Padding(len, context, align) ==
  L * ChunkLen(len, context, align) - NumWindows(len, context)

\* The symbol at 0-based position p.
At(s, p) == IF p < Len(s) THEN s[p + 1] ELSE 0

\* The items of par_iter_bp_delayed: (in, out) with one symbol per lane.
par_iter_bp_delayed(s, context, d, align) ==
  LET n == ChunkLen(Len(s), context, align)
  IN  [i \in 1..NumSteps(Len(s), context, align) |->
         <<Lanes([l \in 1..L |-> At(s, (l - 1) * n + i - 1)]),
           Lanes([l \in 1..L |-> IF i - 1 < d THEN 0
                                   ELSE At(s, (l - 1) * n + i - 1 - d)])>>]

\* The items of BitSeq::par_iter_kmer_ambiguity(k, context, 0): per lane,
\* whether a symbol of the k-mer that ends at the lane's position is flagged.
par_iter_kmer_ambiguity(flags, k, context, align) ==
  LET n == ChunkLen(Len(flags), context, align)
  IN  [i \in 1..NumSteps(Len(flags), context, align) |->
         Lanes([l \in 1..L |->
                  \E p \in 1..Len(flags) :
                    /\ p > (l - 1) * n + i - k
                    /\ p <= (l - 1) * n + i
                    /\ flags[p]])]

\* PaddedIt::collect: the lanes one after the other, without the padding.
collect(items, padding) ==
  LET n == Len(items)
  IN  [j \in 1..(L * n - padding) |-> items[((j - 1) % n) + 1][((j - 1) \div n) + 1]]

\* What one lane gets of a list of (in, out) items.
LanePairs(pairs, l) == [i \in 1..Len(pairs) |-> <<pairs[i][1][l], pairs[i][2][l]>>]

\* The pairs of the streaming protocol: out is 0 for the first delay calls.
ProtocolPairs(h, s) ==
  [t \in 1..Len(s) |-> <<s[t], IF t - 1 < delay(h) THEN 0 ELSE s[t - delay(h)]>>]

\* ------------------------------------------------------- hash_kmers_simd

\* The chunks of hash_kmers_simd: par_iter_bp_delayed(context + k - 1, delay).
SimdAlign(call) ==
  IF call.fn = "hash_valid_kmers_simd" THEN 2 * call.stride ELSE call.stride
SimdSteps(call) ==
  NumSteps(Len(call.s), Context + call.h.k - 1, SimdAlign(call))
SimdPairs(call) ==
  par_iter_bp_delayed(call.s, Context + call.h.k - 1, delay(call.h), SimdAlign(call))
SimdPadding(call) ==
  Padding(Len(call.s), Context + call.h.k - 1, SimdAlign(call))

\* hash_kmers_simd: the chunk iterator and the closure in_out_mapper_simd(seq)
\* are built.
call_hash_kmers_simd ==
  /\ pc = "idle"
  /\ todo # <<>>
  /\ Head(todo).fn = "hash_kmers_simd"
  /\ bits_fit(Head(todo))
  /\ cur' = Head(todo)
  /\ todo' = Tail(todo)
  /\ st' = IF Head(todo).h.fam = "AntiLex"
           THEN closure_new(Head(todo).fn, NoState) ELSE NoState
  /\ pc' = IF Head(todo).h.fam = "AntiLex" THEN "simd" ELSE "fw_init"
  /\ add' = 0
  /\ remove' = 0
  /\ out' = <<>>
  /\ UNCHANGED res
  /\ UNCHANGED parked

\* .advance(k - 1): the first k-1 items are taken and dropped.
simd_advance ==
  /\ pc = "simd"
  /\ cur.fn = "hash_kmers_simd"
  /\ add < cur.h.k - 1
  /\ add < SimdSteps(cur)
  /\ \E wide \in WideShift :
       st' = in_out_mapper_simd(cur.h, st, SimdPairs(cur)[add + 1][1],
                                SimdPairs(cur)[add + 1][2], wide)
  /\ add' = add + 1
  /\ UNCHANGED <<todo, cur, pc, remove, out, res>>
  /\ UNCHANGED parked

\* .map(self.in_out_mapper_simd(seq)): the iterator yields its next item.
simd_emit ==
  /\ pc = "simd"
  /\ cur.fn = "hash_kmers_simd"
  /\ add >= cur.h.k - 1
  /\ add < SimdSteps(cur)
  /\ \E wide \in WideShift :
       LET s2 == in_out_mapper_simd(cur.h, st, SimdPairs(cur)[add + 1][1],
                                    SimdPairs(cur)[add + 1][2], wide)
       IN  /\ st' = s2
           /\ out' = Append(out, s2.ret)
  /\ add' = add + 1
  /\ UNCHANGED <<todo, cur, pc, remove, res>>
  /\ UNCHANGED parked

\* The chunks are exhausted: the caller collects the items.
simd_done ==
  /\ pc = "simd"
  /\ cur.fn = "hash_kmers_simd"
  /\ add = SimdSteps(cur)
  /\ res' = Append(res, Returned(cur, collect(out, SimdPadding(cur))))
  /\ pc' = "idle"
  /\ cur' = NoCall
  /\ st' = NoState
  /\ add' = 0
  /\ remove' = 0
  /\ out' = <<>>
  /\ UNCHANGED todo
  /\ UNCHANGED parked

\* ------------------------------------------------- hash_valid_kmers_simd

\* par_iter_kmer_ambiguity(k, context + k - 1, 0), zipped with the chunks.
SimdAmbiguity(call) ==
  par_iter_kmer_ambiguity(call.ambiguous, call.h.k, Context + call.h.k - 1,
                          SimdAlign(call))

\* move |((a, r), is_ambiguous)| { ... }: one call of the closure.
valid_simd(call, s, i, wide) ==
  LET s2 == in_out_mapper_simd(call.h, s, SimdPairs(call)[i][1],
                               SimdPairs(call)[i][2], wide)
      blend == [l \in 1..L |-> masked(SimdAmbiguity(call)[i][l], s2.ret[l])]
  IN  [s2 EXCEPT !.ret = Lanes(blend)]

\* hash_valid_kmers_simd: the zipped chunk iterators and the closure are built.
call_hash_valid_kmers_simd ==
  /\ pc = "idle"
  /\ todo # <<>>
  /\ Head(todo).fn = "hash_valid_kmers_simd"
  /\ bits_fit(Head(todo))
  /\ cur' = Head(todo)
  /\ todo' = Tail(todo)
  /\ st' = IF Head(todo).h.fam = "AntiLex"
           THEN closure_new(Head(todo).fn, NoState) ELSE NoState
  /\ pc' = IF Head(todo).h.fam = "AntiLex" THEN "simd" ELSE "fw_init"
  /\ add' = 0
  /\ remove' = 0
  /\ out' = <<>>
  /\ UNCHANGED res
  /\ UNCHANGED parked

\* .advance(k - 1)
valid_simd_advance ==
  /\ pc = "simd"
  /\ cur.fn = "hash_valid_kmers_simd"
  /\ add < cur.h.k - 1
  /\ add < SimdSteps(cur)
  /\ \E wide \in WideShift : st' = valid_simd(cur, st, add + 1, wide)
  /\ add' = add + 1
  /\ UNCHANGED <<todo, cur, pc, remove, out, res>>
  /\ UNCHANGED parked

\* .map(...): the iterator yields its next item.
valid_simd_emit ==
  /\ pc = "simd"
  /\ cur.fn = "hash_valid_kmers_simd"
  /\ add >= cur.h.k - 1
  /\ add < SimdSteps(cur)
  /\ \E wide \in WideShift :
       LET s2 == valid_simd(cur, st, add + 1, wide)
       IN  /\ st' = s2
           /\ out' = Append(out, s2.ret)
  /\ add' = add + 1
  /\ UNCHANGED <<todo, cur, pc, remove, res>>
  /\ UNCHANGED parked

\* The chunks are exhausted: the caller collects the items.
valid_simd_done ==
  /\ pc = "simd"
  /\ cur.fn = "hash_valid_kmers_simd"
  /\ add = SimdSteps(cur)
  /\ res' = Append(res, Returned(cur, collect(out, SimdPadding(cur))))
  /\ pc' = "idle"
  /\ cur' = NoCall
  /\ st' = NoState
  /\ add' = 0
  /\ remove' = 0
  /\ out' = <<>>
  /\ UNCHANGED todo
  /\ UNCHANGED parked

\* ---------------------------------------- a closure called by the caller

\* in_out_mapper_scalar(seq), in_out_mapper_simd(seq) or
\* in_out_mapper_ambiguous_scalar(nseq): the closure is built.
call_closure ==
  /\ pc = "idle"
  /\ todo # <<>>
  /\ Head(todo).fn \in {"in_out_mapper_scalar", "in_out_mapper_simd",
                        "in_out_mapper_ambiguous_scalar"}
  /\ bits_fit(Head(todo))
  /\ cur' = Head(todo)
  /\ todo' = Tail(todo)
  /\ st' = IF Head(todo).h.fam = "AntiLex"
           THEN closure_new(Head(todo).fn, NoState) ELSE NoState
  /\ pc' = IF Head(todo).h.fam = "AntiLex" THEN "closure" ELSE "fw_init"
  /\ add' = 0
  /\ remove' = 0
  /\ out' = <<>>
  /\ UNCHANGED res
  /\ UNCHANGED parked

\* The caller calls the closure with its next pair and keeps what it returns.
closure_call ==
  /\ pc = "closure"
  /\ add < Len(cur.pairs)
  /\ \E wide \in WideShift :
       LET a  == cur.pairs[add + 1][1]
           r  == cur.pairs[add + 1][2]
           s2 == CASE cur.fn = "in_out_mapper_scalar" ->
                        in_out_mapper_scalar(cur.h, st, a, r)
                   [] cur.fn = "in_out_mapper_simd" ->
                        in_out_mapper_simd(cur.h, st, a, r, wide)
                   [] cur.fn = "in_out_mapper_ambiguous_scalar" ->
                        in_out_mapper_ambiguous_scalar(cur, st, a, r)
       IN  /\ st' = s2
           /\ out' = Append(out, s2.ret)
  /\ add' = add + 1
  /\ UNCHANGED <<todo, cur, pc, remove, res>>
  /\ UNCHANGED parked

\* The caller has no more pairs.
closure_done ==
  /\ pc = "closure"
  /\ add = Len(cur.pairs)
  /\ res' = Append(res, Returned(cur, out))
  /\ pc' = "idle"
  /\ cur' = NoCall
  /\ st' = NoState
  /\ add' = 0
  /\ remove' = 0
  /\ out' = <<>>
  /\ UNCHANGED todo
  /\ UNCHANGED parked

\* ------------------------- test_hash: scalar streaming, then SIMD streaming

\* Symbols per byte: 1 for a sequence of bytes, 4 for a packed sequence.
Strides(s) == IF \A i \in 1..Len(s) : s[i] < 4 THEN {1, 4} ELSE {1}

\* The unseeded hashers, each with the short sequences of its smallest and
\* its largest symbol and with the texts that hold a k-mer, stored either way.
SimdInputs(h) ==
  (IF h.k <= MaxK
   THEN SeqsUpTo({s \in Symbols(h) : (\A t \in Symbols(h) : s <= t)
                                       \/ (\A t \in Symbols(h) : s >= t)},
                 MaxLen)
   ELSE {})
    \cup {t \in Texts(h) : Len(t) >= h.k}

SimdCases ==
  UNION {UNION {{<<h, s, stride>> : stride \in Strides(s)} : s \in SimdInputs(h)}
         : h \in {g \in Hashers : g.seed = 0}}

\* The lanes whose pairs no earlier lane has.
DistinctLanes(pairs) ==
  LET First(l) == \A m \in 1..(l - 1) : LanePairs(pairs, m) # LanePairs(pairs, l)
  IN  SelectSeq(<<1, 2, 3, 4, 5, 6, 7, 8>>, First)

InitSimd ==
  \E case \in SimdCases :
    LET h     == case[1]
        simd  == [CallOf("hash_kmers_simd", h, case[2]) EXCEPT !.stride = case[3]]
        pairs == SimdPairs(simd)
        lanes == DistinctLanes(pairs)
    IN  InitWith(<<CallOf("hash_kmers_scalar", h, case[2]),
                   simd,
                   [CallOf("in_out_mapper_simd", h, case[2]) EXCEPT !.pairs = pairs]>>
                 \o [j \in 1..Len(lanes) |->
                       [CallOf("in_out_mapper_scalar", h, case[2])
                          EXCEPT !.pairs = LanePairs(pairs, lanes[j])]])

NextSimd ==
  \/ call_hash_kmers_scalar
  \/ fw_init
  \/ rc_init
  \/ prime
  \/ pair
  \/ emit
  \/ stream_done
  \/ call_hash_kmers_simd
  \/ simd_advance
  \/ simd_emit
  \/ simd_done
  \/ call_closure
  \/ closure_call
  \/ closure_done

SpecSimd == InitSimd /\ [][NextSimd]_vars

\* ----------------------------- masked streaming of a PackedNSeq, all ways

\* Flags of the doc example: none, one, the first, the last, neighbours.
DocAmbiguous ==
  {[i \in 1..Len(DocSeq) |-> i \in flagged] :
     flagged \in {{}, {7}, {1}, {Len(DocSeq)}, {3, 4}, {5, 12}}}

\* All assignments of flags to n symbols.
Flags(n) == [1..n -> BOOLEAN]

\* The packed sequences with their flags: the short prefixes of the doc
\* example with every assignment of flags, the doc example with DocAmbiguous.
NSeqs ==
  UNION {{<<SubSeq(DocSeq, 1, n), fl>> : fl \in Flags(n)} : n \in 0..MaxLen}
    \cup {<<DocSeq, fl>> : fl \in DocAmbiguous}

ValidCases ==
  {<<h, n>> \in {g \in Hashers : g.seed = 0} \X NSeqs :
     h.k <= MaxK \/ Len(n[1]) >= h.k}

InitValid ==
  \E case \in ValidCases :
    LET h  == case[1]
        s  == case[2][1]
        fl == case[2][2]
    IN  InitWith(<<CallOf("hash_kmers_scalar", h, s),
                   [CallOf("hash_valid_kmers_scalar", h, s) EXCEPT !.ambiguous = fl],
                   [CallOf("in_out_mapper_ambiguous_scalar", h, s)
                      EXCEPT !.ambiguous = fl, !.pairs = ProtocolPairs(h, s)],
                   [CallOf("hash_valid_kmers_simd", h, s)
                      EXCEPT !.ambiguous = fl, !.stride = 4]>>)

NextValid ==
  \/ call_hash_kmers_scalar
  \/ fw_init
  \/ rc_init
  \/ prime
  \/ pair
  \/ emit
  \/ stream_done
  \/ call_hash_valid_kmers_scalar
  \/ valid_prime
  \/ valid_pair
  \/ valid_emit
  \/ valid_done
  \/ call_hash_valid_kmers_simd
  \/ valid_simd_advance
  \/ valid_simd_emit
  \/ valid_simd_done
  \/ call_closure
  \/ closure_call
  \/ closure_done

SpecValid == InitValid /\ [][NextValid]_vars

\* ------------------------------------------ sequences of either width

\* The assertion on seq.bits_per_char() fails: the call panics, and with it
\* the caller.
panic ==
  /\ pc = "idle"
  /\ todo # <<>>
  /\ ~bits_fit(Head(todo))
  /\ cur' = Head(todo)
  /\ todo' = Tail(todo)
  /\ pc' = "panicked"
  /\ UNCHANGED <<st, add, remove, out, res>>
  /\ UNCHANGED parked

\* The functions that build a mapper over a sequence of any width.
WidthFns ==
  {"hash_seq", "hash_prefixes", "hash_kmers_scalar", "hash_kmers_simd",
   "in_out_mapper_scalar", "in_out_mapper_simd"}

\* The unseeded hashers of small k, each with the non-empty short sequences
\* of its smallest and its largest 2-bit symbol, declared with 2 or 8 bits
\* per symbol.
WidthCases ==
  {g \in Hashers : g.seed = 0 /\ g.k <= MaxK}
    \X (SeqsUpTo({0, 3}, MaxLen) \ {<<>>})
    \X {2, 8}
    \X WidthFns

\* The call of a case: a closure is called with the pairs of the protocol.
WidthCall(h, s, bits, fn) ==
  LET call == [CallOf(fn, h, s) EXCEPT !.bits = bits]
  IN  [call EXCEPT
         !.pairs = CASE fn = "in_out_mapper_scalar" -> ProtocolPairs(h, s)
                     [] fn = "in_out_mapper_simd" ->
                          SimdPairs([call EXCEPT !.fn = "hash_kmers_simd"])
                     [] OTHER -> <<>>]

\* The call, and after it hash_seq of the same sequence in two bits.
InitWidth ==
  \E case \in WidthCases :
    InitWith(<<WidthCall(case[1], case[2], case[3], case[4]),
               CallOf("hash_seq", case[1], case[2])>>)

NextWidth ==
  \/ call_mapper
  \/ map_next
  \/ map_done
  \/ call_hash_kmers_scalar
  \/ fw_init
  \/ rc_init
  \/ prime
  \/ pair
  \/ emit
  \/ stream_done
  \/ call_hash_kmers_simd
  \/ simd_advance
  \/ simd_emit
  \/ simd_done
  \/ call_closure
  \/ closure_call
  \/ closure_done
  \/ panic

SpecWidth == InitWidth /\ [][NextWidth]_vars

\* ------------------------------------ several streams over one hasher
\* Every closure borrows the hasher (&self) and owns its accumulator (move):
\* a caller that holds several of them calls them in any order it likes.

\* A stream the caller is not calling at the moment.
IdleStream ==
  [cur |-> NoCall, pc |-> "idle", st |-> NoState, add |-> 0, remove |-> 0,
   out |-> <<>>]
\* The stream the caller is calling.
Running ==
  [cur |-> cur, pc |-> pc, st |-> st, add |-> add, remove |-> remove, out |-> out]

\* The accumulator a stream goes on with when the caller turns from `from'
\* to it: its own, captured by value (let mut fw, rc; move |..|).
resume_shared(from, to) == from.st
resume(from, to) == to.st

\* The caller turns to another of its streams. A call marked alone is run
\* from its start to its end without a turn.
switch ==
  /\ pc # "panicked"
  /\ pc # "idle" => ~cur.alone
  /\ pc = "idle" /\ todo # <<>> => ~Head(todo).alone
  /\ \E i \in 1..Len(parked) :
       /\ cur' = parked[i].cur
       /\ pc' = parked[i].pc
       /\ st' = resume(Running, parked[i])
       /\ add' = parked[i].add
       /\ remove' = parked[i].remove
       /\ out' = parked[i].out
       /\ parked' = [parked EXCEPT ![i] = Running]
  /\ UNCHANGED <<todo, res>>

\* The hashers of the streams: unseeded, with k-mers in every sequence.
StreamHashers == {g \in Hashers : g.seed = 0 /\ g.k <= MaxLen}

\* Three calls on one hasher, each over its own stretch of the doc example:
\* hash_kmers_scalar, the closure of in_out_mapper_scalar called by the
\* protocol, and the mapper behind hash_prefixes.
StreamCalls(h) ==
  LET w(p) == Window(DocSeq, MaxLen + 1, p)
      call(fn, p) == CallOf(fn, h, w(p))
  IN  <<[call("hash_kmers_scalar", 1) EXCEPT !.alone = FALSE],
        [call("in_out_mapper_scalar", 3) EXCEPT
           !.alone = FALSE, !.pairs = ProtocolPairs(h, w(3))],
        [call("hash_prefixes", 5) EXCEPT !.alone = FALSE]>>

\* Each call is made alone first, then the three are made again by a caller
\* with three streams.
InitStreams ==
  \E h \in StreamHashers :
    /\ todo = [i \in 1..3 |-> [StreamCalls(h)[i] EXCEPT !.alone = TRUE]]
                \o StreamCalls(h)
    /\ cur = NoCall
    /\ pc = "idle"
    /\ st = NoState
    /\ add = 0
    /\ remove = 0
    /\ out = <<>>
    /\ res = <<>>
    /\ parked = <<IdleStream, IdleStream>>

NextStreams ==
  \/ call_mapper
  \/ map_next
  \/ map_done
  \/ call_hash_kmers_scalar
  \/ fw_init
  \/ rc_init
  \/ prime
  \/ pair
  \/ emit
  \/ stream_done
  \/ call_closure
  \/ closure_call
  \/ closure_done
  \/ switch

SpecStreams == InitStreams /\ [][NextStreams]_vars

\* ------------------------------------------- the CharHasher functions
\* f, c, f_rot, c_rot of one symbol and simd_f, simd_c, simd_f_rot,
\* simd_c_rot of eight, called on a hasher just built.

CharFns == <<"f", "c", "f_rot", "c_rot">>
SimdCharFns == <<"simd_f", "simd_c", "simd_f_rot", "simd_c_rot">>

\* self.f(b), self.c(b), self.f_rot(b) or self.c_rot(b) returns.
char_hash ==
  /\ pc = "idle"
  /\ todo # <<>>
  /\ \E n \in 1..Len(CharFns) : Head(todo).fn = CharFns[n]
  /\ LET call == Head(todo)
         b    == call.s[1]
         val  == CASE call.fn = "f" -> f(call.h, b)
                   [] call.fn = "c" -> c(call.h, b)
                   [] call.fn = "f_rot" -> f_rot(call.h, b)
                   [] call.fn = "c_rot" -> c_rot(call.h, b)
     IN  res' = Append(res, Returned(call, val))
  /\ todo' = Tail(todo)
  /\ UNCHANGED <<cur, pc, st, add, remove, out, parked>>

\* self.simd_f(b), self.simd_c(b), self.simd_f_rot(b) or self.simd_c_rot(b)
\* returns, b a u32x8.
char_hash_simd ==
  /\ pc = "idle"
  /\ todo # <<>>
  /\ \E n \in 1..Len(SimdCharFns) : Head(todo).fn = SimdCharFns[n]
  /\ \E wide \in WideShift :
       LET call == Head(todo)
           b    == call.s
           val  == CASE call.fn = "simd_f" -> [l \in 1..L |-> simd_f(call.h, b[l])]
                     [] call.fn = "simd_c" -> [l \in 1..L |-> simd_c(call.h, b[l])]
                     [] call.fn = "simd_f_rot" ->
                          [l \in 1..L |-> simd_f_rot(call.h, b[l], wide)]
                     [] call.fn = "simd_c_rot" ->
                          [l \in 1..L |-> simd_c_rot(call.h, b[l], wide)]
       IN  res' = Append(res, Returned(call, Lanes(val)))
  /\ todo' = Tail(todo)
  /\ UNCHANGED <<cur, pc, st, add, remove, out, parked>>

\* Eight symbols of the alphabet of h, each with its complement among them.
CharVectors(h) ==
  IF h.fam = "Mul"
  THEN {<<0, 2, 65, 67, 253, 255, 1, 3>>, <<84, 86, 71, 69, 128, 130, 2, 0>>,
        <<255, 253, 255, 253, 0, 2, 0, 2>>}
  ELSE {<<0, 1, 2, 3, 3, 2, 1, 0>>, <<2, 2, 0, 1, 3, 0, 1, 3>>,
        <<3, 3, 3, 3, 1, 1, 1, 1>>}

\* The four scalar functions on each of the eight symbols, then the four
\* SIMD functions on the eight at once.
CharCalls(h, b) ==
  [n \in 1..(Len(CharFns) * L) |->
     CallOf(CharFns[((n - 1) \div L) + 1], h, <<b[((n - 1) % L) + 1]>>)]
    \o [n \in 1..Len(SimdCharFns) |-> CallOf(SimdCharFns[n], h, b)]

CharCases ==
  UNION {{<<h, b>> : b \in CharVectors(h)} :
           h \in {g \in Hashers : g.fam \in {"Nt", "Mul"}}}

InitChar == \E case \in CharCases : InitWith(CharCalls(case[1], case[2]))

NextChar ==
  \/ char_hash
  \/ char_hash_simd

SpecChar == InitChar /\ [][NextChar]_vars

\* ------------------------------------------------------------- properties

\* The finished calls.
Results == {res[i] : i \in 1..Len(res)}
\* hash_seq of w by hasher h has returned v.
HashSeqIs(h, w, v) ==
  Returned(CallOf("hash_seq", h, w), v) \in Results
\* Every value of vals is hash_seq of the window at its position.
AgreesWithNaive(h, s, vals) ==
  \A p \in 1..Len(vals) : HashSeqIs(h, Window(s, h.k, p), vals[p])
\* The number of k-mers of a sequence of n symbols.
NumKmers(n, k) == IF n >= k THEN n - k + 1 ELSE 0
\* The finished calls of hash_kmers_scalar.
Streams == {r \in Results : r.fn = "hash_kmers_scalar"}

\* C1: for NtHasher and MulHasher (forward and canonical, seeded or not) the
\* i-th value of hash_kmers_scalar(seq) is hash_seq of the window seq[i..i+k),
\* for the values emitted so far and for every finished stream.
C1_ScalarEqualsNaive ==
  /\ (cur.fn = "hash_kmers_scalar" /\ cur.h.fam \in {"Nt", "Mul"})
       => AgreesWithNaive(cur.h, cur.s, out)
  /\ \A r \in Streams :
       r.h.fam \in {"Nt", "Mul"}
         => /\ Len(r.val) = NumKmers(Len(r.s), r.h.k)
            /\ AgreesWithNaive(r.h, r.s, r.val)

\* A seeded canonical hasher whose rotation (k-1)*R exceeds 32 has streamed
\* several k-mers.
C1_Witness ==
  \E r \in Streams :
    /\ r.h.fam \in {"Nt", "Mul"} /\ r.h.canonical /\ r.h.seed # 0
    /\ (r.h.k - 1) * R >= WordBits
    /\ Len(r.val) >= 3

\* C2: for AntiLexHasher<false> and AntiLexHasher<true> the i-th value of
\* hash_kmers_scalar(seq) is hash_seq of the window seq[i..i+k), for k below,
\* at and above 16.
C2_AntiLexEqualsNaive ==
  /\ (cur.fn = "hash_kmers_scalar" /\ cur.h.fam = "AntiLex")
       => AgreesWithNaive(cur.h, cur.s, out)
  /\ \A r \in Streams :
       r.h.fam = "AntiLex"
         => /\ Len(r.val) = NumKmers(Len(r.s), r.h.k)
            /\ AgreesWithNaive(r.h, r.s, r.val)

\* The canonical AntiLex hasher with k > 16 (delay k-16 > 0) has streamed
\* several k-mers, after placeholder symbols were fed.
C2_Witness ==
  \E r \in Streams :
    /\ r.h.fam = "AntiLex" /\ r.h.canonical /\ r.h.k > SatK
    /\ delay(r.h) > 0
    /\ Len(r.val) >= 3

\* C5: hash_kmers_scalar emits nothing while the first k-1 symbols are
\* consumed, then one value per symbol consumed, so that after `add` symbols
\* it has emitted max(0, add-(k-1)) values, and n-(k-1) in all when
\* n >= k-1 (none when n < k).
C5_OneValuePerKmer ==
  /\ (pc = "run" /\ cur.fn = "hash_kmers_scalar")
       => Len(out) = (IF add >= cur.h.k - 1 THEN add - (cur.h.k - 1) ELSE 0)
  /\ \A r \in Streams :
       Len(r.val) = (IF Len(r.s) >= r.h.k - 1 THEN Len(r.s) - (r.h.k - 1) ELSE 0)

\* A stream is past its priming: it has consumed more than k-1 > 0 symbols.
C5_Witness ==
  /\ pc = "run" /\ cur.fn = "hash_kmers_scalar"
  /\ cur.h.k > 1 /\ add > cur.h.k /\ Len(out) >= 2

\* C8 as stated: no unmasked hash (hash_seq or hash_kmers_scalar) is u32::MAX.
C8_NeverMax ==
  \A r \in Results :
    /\ r.fn = "hash_seq" => r.val # U32MAX
    /\ r.fn = "hash_kmers_scalar" => \A p \in 1..Len(r.val) : r.val[p] # U32MAX

\* C8, amended: for AntiLexHasher (forward and canonical) with k < 16 every
\* unmasked hash is below 4^k, hence never u32::MAX.
C8_AntiLexBelowSentinel ==
  \A r \in Results :
    (r.h.fam = "AntiLex" /\ r.h.k < SatK)
      => /\ r.fn = "hash_seq"
              => (~Less(LowBits(AntiLexBits * r.h.k), r.val) /\ r.val # U32MAX)
         /\ r.fn = "hash_kmers_scalar"
              => \A p \in 1..Len(r.val) :
                   /\ ~Less(LowBits(AntiLexBits * r.h.k), r.val[p])
                   /\ r.val[p] # U32MAX

\* An AntiLex hasher with 1 < k < 16 has streamed several k-mers.
C8_Witness ==
  \E r \in Streams :
    r.h.fam = "AntiLex" /\ r.h.k < SatK /\ r.h.k > 1 /\ Len(r.val) >= 3

\* C4: for a canonical hasher (NtHasher<true>, MulHasher<true>,
\* AntiLexHasher<true>) the values of hash_kmers_scalar(S), reversed, are the
\* values of hash_kmers_scalar(reverse_complement(S)).
C4_RevcompReverses ==
  \A r1 \in Streams : \A r2 \in Streams :
    (r1.h.canonical /\ r2.h = r1.h /\ r2.s = to_revcomp(r1.s))
      => r2.val = Reverse(r1.val)

\* Both streams of a canonical hasher are finished, over a sequence that is
\* not its own reverse complement, with first and last hash different.
C4_Witness ==
  /\ Len(res) = 2
  /\ res[1].h.canonical /\ res[1].h.k > 1
  /\ res[2].s = to_revcomp(res[1].s) /\ res[2].s # res[1].s
  /\ Len(res[1].val) >= 3
  /\ res[1].val[1] # res[1].val[Len(res[1].val)]

\* C9: hash_seq and the single-pass mapper ignore k: two hashers that differ
\* only in k return the same hash_seq value for a sequence, and the same
\* mapper output after every symbol (the values of hash_prefixes).
C9_IgnoresK ==
  \A r1 \in Results : \A r2 \in Results :
    (/\ r1.fn \in {"hash_seq", "hash_prefixes"}
     /\ r2.fn = r1.fn
     /\ r2.s = r1.s
     /\ [r2.h EXCEPT !.k = r1.h.k] = r1.h)
      => r2.val = r1.val

\* C10: hash_prefixes(seq) yields n values, the j-th being hash_seq of the
\* prefix of j symbols by the same hasher.
C10_PrefixesAreHashSeq ==
  \A r \in Results :
    r.fn = "hash_prefixes"
      => /\ Len(r.val) = Len(r.s)
         /\ \A j \in 1..Len(r.s) :
              \A q \in Results :
                (q.fn = "hash_seq" /\ q.h = r.h /\ q.s = SubSeq(r.s, 1, j))
                  => q.val = r.val[j]

\* C3: in every lane in_out_mapper_simd, called with a list of (in, out)
\* items, returns the values in_out_mapper_scalar returns for the pairs of
\* that lane; and hash_kmers_simd(seq, 1), collected without its padding, is
\* hash_kmers_scalar(seq), of len(seq)-(k-1) values.
C3_SimdEqualsScalar ==
  /\ \A r \in Results :
       r.fn = "in_out_mapper_simd"
         => \A q \in Results :
              (q.fn = "in_out_mapper_scalar" /\ q.h = r.h)
                => \A l \in 1..L :
                     q.pairs = LanePairs(r.pairs, l)
                       => q.val = [i \in 1..Len(r.val) |-> r.val[i][l]]
  /\ \A r \in Results :
       r.fn = "hash_kmers_simd"
         => /\ Len(r.val) = NumKmers(Len(r.s), r.h.k)
            /\ \A q \in Streams : (q.h = r.h /\ q.s = r.s) => q.val = r.val

\* The end-to-end scenario: ACGGCAGCGCATATGTAGT, k = 3, the default
\* canonical NtHasher. The SIMD stream has 17 values from several lanes, and
\* the scalar closure has been run on the pairs of every lane.
C3_Witness ==
  /\ todo = <<>> /\ pc = "idle"
  /\ \E r \in Results :
       /\ r.fn = "hash_kmers_simd" /\ r.s = DocSeq
       /\ r.h = [fam |-> "Nt", canonical |-> TRUE, k |-> 3, seed |-> 0]
       /\ r.stride = 1 /\ Len(r.val) = 17
       /\ \E v \in Results :
            /\ v.fn = "in_out_mapper_simd" /\ v.h = r.h /\ Len(v.val) = 5
            /\ \A l \in 1..L :
                 \E q \in Results :
                   q.fn = "in_out_mapper_scalar" /\ q.pairs = LanePairs(v.pairs, l)

\* C6: hash_valid_kmers_scalar, and hash_valid_kmers_simd once collected,
\* yield one value per k-mer: u32::MAX when a symbol of the k-mer is flagged,
\* and else the value hash_kmers_scalar yields for that k-mer, also after
\* masked k-mers.
C6_MaskedOrUnmasked ==
  \A r \in Results :
    r.fn \in {"hash_valid_kmers_scalar", "hash_valid_kmers_simd"}
      => \A q \in Streams :
           (q.h = r.h /\ q.s = r.s)
             => /\ Len(r.val) = Len(q.val)
                /\ \A j \in 1..Len(r.val) :
                     r.val[j] = IF \E i \in j..(j + r.h.k - 1) : r.ambiguous[i]
                                THEN U32MAX ELSE q.val[j]

\* Both masked streams of a sequence with one flagged symbol are finished:
\* k > 1 k-mers in a row are masked, the k-mers before and after are not.
C6_Witness ==
  \E r1 \in Results : \E r2 \in Results :
    /\ r1.fn = "hash_valid_kmers_scalar" /\ r2.fn = "hash_valid_kmers_simd"
    /\ r2.h = r1.h /\ r2.s = r1.s /\ r2.ambiguous = r1.ambiguous
    /\ r1.h.k > 1
    /\ \E j \in 2..(Len(r1.val) - r1.h.k) :
         /\ r1.val[j - 1] # U32MAX /\ r2.val[j - 1] # U32MAX
         /\ \A m \in j..(j + r1.h.k - 1) : r1.val[m] = U32MAX /\ r2.val[m] = U32MAX
         /\ r1.val[j + r1.h.k] # U32MAX /\ r2.val[j + r1.h.k] # U32MAX

\* C7: the closure of in_out_mapper_ambiguous_scalar, called once per symbol
\* with the pairs of the streaming protocol, returns unmasked hashes in its
\* first k-1 calls, and in call k-1+j the j-th value of
\* hash_valid_kmers_scalar.
C7_AmbiguousLagsByKMinus1 ==
  \A r \in Results :
    r.fn = "in_out_mapper_ambiguous_scalar"
      => \A q \in Results :
           (/\ q.fn = "hash_valid_kmers_scalar"
            /\ q.h = r.h /\ q.s = r.s /\ q.ambiguous = r.ambiguous)
             => /\ Len(r.val) = Len(r.s)
                /\ \A j \in 1..Len(q.val) : r.val[r.h.k - 1 + j] = q.val[j]

\* C11: a call that builds a mapper over a sequence of more bits per symbol
\* than the hasher's width (2 for NtHasher and AntiLexHasher, 8 for
\* MulHasher) panics before a symbol is hashed or a value is emitted, and
\* the caller goes no further; a call in progress or finished is always
\* over a sequence that fits, and a call over a sequence that fits never
\* panics.
C11_WidthAssertion ==
  /\ pc = "panicked"
       => /\ cur.bits > BITS_PER_CHAR(cur.h)
          /\ st = NoState /\ add = 0 /\ remove = 0 /\ out = <<>>
          /\ res = <<>>
  /\ pc \notin {"idle", "panicked"} => cur.bits <= BITS_PER_CHAR(cur.h)
  /\ \A r \in Results : r.bits <= BITS_PER_CHAR(r.h)

\* The crate's doc example: hash_kmers_scalar of NtHasher over a slice of
\* bytes has panicked, with hash_seq still to be called.
C11_Witness ==
  /\ pc = "panicked"
  /\ cur.fn = "hash_kmers_scalar" /\ cur.h.fam = "Nt" /\ cur.h.canonical
  /\ cur.bits = 8 /\ cur.s # <<>>
  /\ todo # <<>>

\* C12: streams made from one hasher are independent. A call made while
\* other streams of the same hasher are being called returns what the same
\* call returns when made alone; every stream that has taken no symbol yet
\* holds the accumulator a call made alone starts from; and the hasher of
\* every call, waiting, running or finished, is the one the caller built.
Active == {Running} \cup {parked[i] : i \in 1..Len(parked)}
Fresh(x) == x.pc \in {"run", "closure", "map"} /\ x.add = 0
C12_StreamsIndependent ==
  /\ \A r \in Results : ~r.alone => [r EXCEPT !.alone = TRUE] \in Results
  /\ \A x \in Active :
       Fresh(x) =>
         x.st = IF x.cur.fn = "hash_prefixes"
                THEN mapper_new(x.cur.h, Len(x.cur.s))
                ELSE IF x.cur.h.fam = "AntiLex" THEN NoState
                ELSE [NoState EXCEPT
                        !.fw = fw_init_loop(x.cur.h, x.cur.h.k - 1),
                        !.rc = rc_init_loop(x.cur.h, x.cur.h.k - 1)]
  /\ \A x \in Active : \A i \in 1..Len(todo) :
       x.pc # "idle" => x.cur.h = todo[i].h
  /\ \A r, q \in Results : r.h = q.h
\* Three streams are under way at once, each having yielded something and
\* none at its end.
C12_Witness ==
  /\ pc = "run" /\ ~cur.alone /\ out # <<>> /\ add < Len(cur.s)
  /\ \E i, j \in 1..Len(parked) :
       /\ parked[i].pc = "closure" /\ parked[i].out # <<>>
       /\ parked[i].add < Len(parked[i].cur.pairs)
       /\ parked[j].pc = "map" /\ parked[j].out # <<>>
       /\ parked[j].add < Len(parked[j].cur.s)

\* The digits of a word in base 4, d[from] the lowest, as a number.
RECURSIVE Base4(_, _, _)
Base4(d, from, to) ==
  IF from > to THEN 0 ELSE d[from] + 4 * Base4(d, from + 1, to)
\* The word of the last m = min(k, 16) symbols of the k-mer x, the last
\* symbol in the highest of its m places and inverted (3 - s), the oldest of
\* the m in the lowest place.
AntiLexWord(x) ==
  LET k == Len(x)
      m == IF k < SatK THEN k ELSE SatK
      d == [j \in 0..(m - 1) |-> IF j = m - 1 THEN 3 - x[k] ELSE x[k - m + j + 1]]
      half == SatK \div 2
  IN  <<Base4(d, half, m - 1), Base4(d, 0, IF m < half THEN m - 1 ELSE half - 1)>>
\* v < 4^k, for k < 16.
Below4k(v, k) ==
  IF 2 * k <= SatK THEN v[1] = 0 /\ v[2] < 4 ^ k
  ELSE v[1] < 4 ^ (k - SatK \div 2)
ForwardAntiLex(h) == h.fam = "AntiLex" /\ ~h.canonical

\* C13: the hash of a k-mer by AntiLexHasher<false>, from hash_seq and from
\* hash_kmers_scalar, is the word of its last min(k, 16) symbols, the last
\* symbol in the most significant place and XORed with 3, the oldest in the
\* least significant; it is below 4^k when k < 16, and for k > 16 no symbol
\* before the last 16 is in it.
C13_ForwardAntiLexWord ==
  /\ \A r \in Results :
       (r.fn = "hash_seq" /\ ForwardAntiLex(r.h) /\ Len(r.s) = r.h.k)
         => /\ r.val = AntiLexWord(r.s)
            /\ r.h.k < SatK => Below4k(r.val, r.h.k)
  /\ \A r \in Streams :
       ForwardAntiLex(r.h)
         => \A p \in 1..Len(r.val) :
              /\ r.val[p] = AntiLexWord(Window(r.s, r.h.k, p))
              /\ r.h.k < SatK => Below4k(r.val[p], r.h.k)
  /\ (cur.fn = "hash_kmers_scalar" /\ ForwardAntiLex(cur.h))
       => \A p \in 1..Len(out) : out[p] = AntiLexWord(Window(cur.s, cur.h.k, p))
\* AntiLexHasher<false> with k > 16 has streamed several k-mers of a text.
C13_Witness ==
  \E r \in Streams :
    /\ ForwardAntiLex(r.h) /\ r.h.k > SatK
    /\ Len(r.val) >= 3
    /\ r.val[1] # r.val[2]

CanonicalAntiLex(h) == h.fam = "AntiLex" /\ h.canonical
\* min(h(x), h(rc(x))), h the word of AntiLexHasher<false> and rc(x) the
\* k-mer x read backward with every symbol XORed with 2.
AntiLexCanonicalWord(x) == min(AntiLexWord(x), AntiLexWord(to_revcomp(x)))
\* The first min(k, 16) symbols of x.
First16(x) == SubSeq(x, 1, IF Len(x) < SatK THEN Len(x) ELSE SatK)

\* C14: the hash of a k-mer x by AntiLexHasher<true>, from hash_seq and
\* from hash_kmers_scalar, is min(h(x), h(rc(x))) with h the hash of
\* AntiLexHasher<false> for the same k; for k > 16 the word of rc(x) is the
\* one of the reverse complement of the first 16 symbols of x.
C14_CanonicalAntiLexIsMin ==
  /\ \A r \in Results :
       (r.fn = "hash_seq" /\ CanonicalAntiLex(r.h) /\ Len(r.s) = r.h.k)
         => /\ r.val = AntiLexCanonicalWord(r.s)
            /\ r.val = min(AntiLexWord(r.s), AntiLexWord(to_revcomp(First16(r.s))))
  /\ \A r \in Streams :
       CanonicalAntiLex(r.h)
         => \A p \in 1..Len(r.val) :
              r.val[p] = AntiLexCanonicalWord(Window(r.s, r.h.k, p))
  /\ (cur.fn = "hash_kmers_scalar" /\ CanonicalAntiLex(cur.h))
       => \A p \in 1..Len(out) :
            out[p] = AntiLexCanonicalWord(Window(cur.s, cur.h.k, p))
\* AntiLexHasher<true> with k > 16 has streamed k-mers of a text, one whose
\* value is the forward word and one whose value is the word of the reverse
\* complement.
C14_Witness ==
  \E r \in Streams :
    /\ CanonicalAntiLex(r.h) /\ r.h.k > SatK
    /\ \E p, q \in 1..Len(r.val) :
         /\ r.val[p] = AntiLexWord(Window(r.s, r.h.k, p))
         /\ r.val[p] # AntiLexWord(to_revcomp(Window(r.s, r.h.k, p)))
         /\ r.val[q] # AntiLexWord(Window(r.s, r.h.k, q))

\* hash_kmers_scalar has yielded at least one value and is not finished: its
\* latest call of the closure was an emitting one, with the symbol at
\* position add - 1 as incoming and the one at position remove - 1 as
\* outgoing (positions counted from 0).
Emitting == pc = "run" /\ cur.fn = "hash_kmers_scalar" /\ out # <<>>
\* The latest value is the hash of the k-mer ending at the incoming symbol.
LatestIsKmerHash ==
  HashSeqIs(cur.h, SubSeq(cur.s, add - cur.h.k + 1, add), out[Len(out)])
\* How far behind the incoming symbol the outgoing one is.
Lag(h) ==
  IF CanonicalAntiLex(h) THEN (IF h.k > SatK THEN h.k - SatK ELSE 0) ELSE h.k - 1

\* C15 as stated: every emitting call receives the symbols at positions i
\* and i-k and returns the hash of the k-mer ending at position i.
C15_PairIsKApart ==
  Emitting => /\ remove - 1 = (add - 1) - cur.h.k
              /\ LatestIsKmerHash

\* C15 amended: every emitting call receives the symbols at positions i and
\* i-(k-1), the first symbol of the k-mer ending at i (i-(k-16), or i when
\* k <= 16, for AntiLexHasher<true>), and returns the hash of the k-mer
\* ending at position i.
C15_PairIsDelayApart ==
  Emitting => /\ remove - 1 = (add - 1) - Lag(cur.h)
              /\ remove - 1 >= 0
              /\ LatestIsKmerHash
\* A canonical ntHash hasher with k > 1 has made its third emitting call.
C15_Witness ==
  /\ Emitting /\ Len(out) = 3
  /\ cur.h.fam = "Nt" /\ cur.h.canonical /\ cur.h.k = 3
  /\ add < Len(cur.s)

\* The value of fn on the symbol b by hasher h is v.
CharIs(fn, h, b, v) == Returned(CallOf(fn, h, <<b>>), v) \in Results
\* rotate_left by ((k-1)*R) mod 32 bits.
RotatedK(h, v) == rotate_left(v, ((h.k - 1) * R) % WordBits)

RECURSIVE single_pass(_, _, _)
single_pass(h, x, n) ==
  IF n = 0 THEN NoState ELSE CH_mapper(h, single_pass(h, x, n - 1), x[n])
\* The n incoming symbols fed latest when t symbols of s were fed, 0 where
\* the stream had not begun.
Recent(s, t, n) == [j \in 1..n |-> IF t - n + j >= 1 THEN s[t - n + j] ELSE 0]
\* The closure of in_out_mapper_scalar of NtHasher or MulHasher is held by
\* hash_kmers_scalar, which has called it `add' times.
Rolling ==
  pc = "run" /\ cur.fn = "hash_kmers_scalar" /\ cur.h.fam \in {"Nt", "Mul"}

\* C17: in hash_kmers_scalar by NtHasher or MulHasher, before the first call
\* of the closure and after every call of it, the stored fw is the fw of a
\* single pass over the k-1 incoming symbols fed latest, symbol 0 standing
\* for those before the start of the stream (k-1 zeros at the start), and
\* the stored rc of a canonical hasher is the rc of that single pass.
C17_RollingState ==
  Rolling =>
    LET whole == single_pass(cur.h, Recent(cur.s, add, cur.h.k - 1), cur.h.k - 1)
    IN  /\ st.fw = whole.fw
        /\ cur.h.canonical => st.rc = whole.rc
\* A seeded canonical hasher whose rotation (k-1)*R exceeds 32 bits has
\* cancelled symbols of the sequence, not only placeholders.
C17_Witness ==
  /\ Rolling /\ cur.h.canonical /\ cur.h.seed # 0
  /\ (cur.h.k - 1) * R > WordBits
  /\ remove >= 3
  /\ Len(out) >= 2

====
